---- MODULE Spec2Model ----
(***************************************************************************)
(* PhysicalParticleContainer::PartitionParticlesInBuffers                  *)
(* (Source/Particles/Sorting/Partition.cpp): the two-level stable          *)
(* partition of one particle tile into fine-patch and buffer particles,    *)
(* and the reorder of the tile that follows it (Spec, and SpecPar with the  *)
(* threads of its kernels run one at a time); the position samplers and    *)
(* the region of Source/Initialization/InjectorPosition.H (SpecInjector,   *)
(* SpecRegion); the position pushes of                                     *)
(* Source/Particles/Pusher/UpdatePosition.H (SpecPush).                    *)
(*                                                                         *)
(* Particle indices, array positions and counts are 0-based as in the      *)
(* code: an array of length n is a function on 0..n-1.                     *)
(*                                                                         *)
(* A mask is represented by the value it holds at the cell of each         *)
(* particle: mask[i] = 1 when particle i lies in the interior of the fine  *)
(* patch, 0 when it lies in the buffer. inexflag is used as the predicate  *)
(* of stablePartition, which moves the entries with a nonzero flag to the  *)
(* front.                                                                  *)
(***************************************************************************)
EXTENDS Integers, Sequences, FiniteSets

\* ---------------------------------------------------------------- bounds
MaxNp == 2
MaxWidth == 2
MaxLev == 1

\* ----------------------------------------------------------------- state
VARIABLES
    pc,                       \* position of the host in the function
    np,                       \* number of particles of the tile
    n_current_deposition_buffer,  \* WarpX::n_current_deposition_buffer (Wc)
    n_field_gather_buffer,        \* WarpX::n_field_gather_buffer (Wg)
    lev,                      \* refinement level
    m_deposit_on_main_grid,
    m_gather_from_main_grid,
    current_masks,            \* deposition mask at the cell of each particle
    gather_masks,             \* gather mask at the cell of each particle
    nfine_current,            \* long& nfine_current (in/out)
    nfine_gather,             \* long& nfine_gather (in/out)
    inexflag,                 \* Gpu::DeviceVector<int> inexflag
    pid,                      \* Gpu::DeviceVector<int> pid
    n_fine,                   \* distance(pid.begin(), sep)
    bmasks,                   \* which mask bmasks points to
    sep2,                     \* distance(pid.begin(), sep2), -1 if no 2nd pass
    ptile,                    \* the live particle tile
    ptile_tmp,                \* the scratch tile (<<>> when not allocated)
    pending,                  \* slots the gather kernel has not written yet
    ngather,                  \* number of gatherParticles launches
    nswap,                    \* number of times the tile has been swapped
    unsynced,                 \* kernels launched since the last
                              \* Gpu::streamSynchronize()
    call,                     \* arguments of a call of a device function
    ret,                      \* what the call has returned so far
    par                       \* parallel work of a classification or partition

vars == << pc, np, n_current_deposition_buffer, n_field_gather_buffer, lev,
           m_deposit_on_main_grid, m_gather_from_main_grid, current_masks,
           gather_masks, nfine_current, nfine_gather, inexflag, pid, n_fine,
           bmasks, sep2, ptile, ptile_tmp, pending, ngather, nswap, unsynced,
           call, ret, par >>

\* the state of PartitionParticlesInBuffers
partition_vars ==
    << pc, np, n_current_deposition_buffer, n_field_gather_buffer, lev,
       m_deposit_on_main_grid, m_gather_from_main_grid, current_masks,
       gather_masks, nfine_current, nfine_gather, inexflag, pid, n_fine,
       bmasks, sep2, ptile, ptile_tmp, pending, ngather, nswap, unsynced >>

\* the state of the device functions and of the parallel primitives, which
\* PartitionParticlesInBuffers as a whole does not touch
aux == << call, ret, par >>

inputs == << np, n_current_deposition_buffer, n_field_gather_buffer, lev,
             m_deposit_on_main_grid, m_gather_from_main_grid, current_masks,
             gather_masks >>

tiles == << ptile, ptile_tmp, pending, ngather, nswap >>

\* --------------------------------------------------------------- helpers

\* The attribute arrays of a particle tile (structure of arrays).
Attrs == {"x", "ux", "w", "id", "runtime_real", "runtime_int"}

\* The tile on entry: row i of attribute a holds the tag <<a, i>>.
EntryTile(n) == [a \in Attrs |-> [i \in 0..(n - 1) |-> << a, i >>]]

\* A slot of a freshly resized tile that no kernel has written yet.
Unwritten == << "unwritten", 0 >>

\* ptile_tmp.define(...); ptile_tmp.resize(np)
FreshTile(n) == [a \in Attrs |-> [i \in 0..(n - 1) |-> Unwritten]]

\* v.resize(n) of an empty device vector: n entries, every one of which is
\* written (lines 75 and 78) before it is read; they are shown as 0
Resized(n) == [i \in 0..(n - 1) |-> 0]

\* fillWithConsecutiveIntegers(v)
fillWithConsecutiveIntegers(v) == [i \in DOMAIN v |-> i]

\* the entries p[lo], ..., p[hi-1] as a sequence
RangeSeq(p, lo, hi) == [k \in 1..(hi - lo) |-> p[lo + k - 1]]

\* stablePartition(begin + lo, begin + hi, predicate): the entries of
\* [lo, hi) whose predicate is nonzero first, then the others, each group in
\* its previous order; sep is the position of the first entry of the second
\* group.
stablePartition(p, lo, hi, predicate) ==
    LET r == RangeSeq(p, lo, hi)
        t == SelectSeq(r, LAMBDA v : predicate[v] # 0)
        f == SelectSeq(r, LAMBDA v : predicate[v] = 0)
        s == t \o f
    IN  [ pid |-> [k \in DOMAIN p |->
                     IF k >= lo /\ k < hi THEN s[k - lo + 1] ELSE p[k]],
          sep |-> lo + Len(t) ]

\* A partition that is not stable: as stablePartition, but the first group
\* comes out in reverse order.
Reverse(q) == [k \in 1..Len(q) |-> q[Len(q) + 1 - k]]
unstablePartition(p, lo, hi, predicate) ==
    LET r == RangeSeq(p, lo, hi)
        t == SelectSeq(r, LAMBDA v : predicate[v] # 0)
        f == SelectSeq(r, LAMBDA v : predicate[v] = 0)
        s == Reverse(t) \o f
    IN  [ pid |-> [k \in DOMAIN p |->
                     IF k >= lo /\ k < hi THEN s[k - lo + 1] ELSE p[k]],
          sep |-> lo + Len(t) ]

\* ParallelFor(np, fillBufferFlag(pti, mask, inexflag, geom)):
\* inexflag[i] = mask value at the cell of particle i, for every i
fillBufferFlag(flag, mask) == [i \in DOMAIN flag |-> mask[i]]

\* ParallelFor(np - start, fillBufferFlagRemainingParticles(pti, mask,
\* inexflag, geom, pid, start)): for i in [0, np - start),
\* inexflag[pid[i + start]] = mask value at the cell of particle pid[i + start]
fillBufferFlagRemainingParticles(flag, mask, p, start) ==
    LET touched == {p[k] : k \in {m \in DOMAIN p : m >= start}}
    IN  [i \in DOMAIN flag |-> IF i \in touched THEN mask[i] ELSE flag[i]]

\* the mask a bmasks pointer designates
MaskOf(which) == IF which = "gather" THEN gather_masks ELSE current_masks

\* ------------------------------------------------------------------ Init
Init ==
    /\ pc = "entry"
    /\ np \in 0..MaxNp
    /\ n_current_deposition_buffer \in 0..MaxWidth
    /\ n_field_gather_buffer \in 0..MaxWidth
    /\ lev \in 0..MaxLev
    /\ m_deposit_on_main_grid \in BOOLEAN
    /\ m_gather_from_main_grid \in BOOLEAN
    /\ current_masks \in [0..(np - 1) -> {0, 1}]
    /\ gather_masks \in [0..(np - 1) -> {0, 1}]
    /\ nfine_current \in {-1, np}
    /\ nfine_gather \in {-1, np}
    /\ inexflag = << >>
    /\ pid = << >>
    /\ n_fine = -1
    /\ bmasks = "none"
    /\ sep2 = -1
    /\ ptile = EntryTile(np)
    /\ ptile_tmp = << >>
    /\ pending = {}
    /\ ngather = 0
    /\ nswap = 0
    /\ unsynced = {}
    /\ call = "none"
    /\ ret = "none"
    /\ par = "none"

\* --------------------------------------------------------------- actions

\* Classify with the smaller buffer selected first.
Classify_SmallerFirst ==
    /\ pc = "entry"
    /\ pc' = "classified"
    /\ unsynced' = unsynced \cup {"fillBufferFlag"}
    /\ bmasks' = IF n_field_gather_buffer <= n_current_deposition_buffer
                 THEN "gather" ELSE "current"
    /\ inexflag' = fillBufferFlag(Resized(np), MaskOf(bmasks'))
    /\ pid' = Resized(np)
    /\ UNCHANGED << aux, inputs, nfine_current, nfine_gather, n_fine, sep2, tiles >>

\* Lines 61-75: allocate the temporaries, select the larger buffer and
\* classify every particle against its mask.
Classify ==
    /\ pc = "entry"
    /\ pc' = "classified"
    /\ unsynced' = unsynced \cup {"fillBufferFlag"}
    /\ bmasks' = IF n_field_gather_buffer >= n_current_deposition_buffer
                 THEN "gather" ELSE "current"
    /\ inexflag' = fillBufferFlag(Resized(np), MaskOf(bmasks'))
    /\ pid' = Resized(np)
    /\ UNCHANGED << aux, inputs, nfine_current, nfine_gather, n_fine, sep2, tiles >>

\* Line 78 left out: pid keeps the zeros of resize().
FillPid_Omitted ==
    /\ pc = "classified"
    /\ pc' = "filled"
    /\ UNCHANGED unsynced
    /\ UNCHANGED << aux, inputs, nfine_current, nfine_gather, inexflag, pid,
                    n_fine,
                    bmasks, sep2, tiles >>

\* Line 78: fillWithConsecutiveIntegers( pid ).
FillPid ==
    /\ pc = "classified"
    /\ pc' = "filled"
    /\ unsynced' = unsynced \cup {"fillWithConsecutiveIntegers"}
    /\ pid' = fillWithConsecutiveIntegers(pid)
    /\ UNCHANGED << aux, inputs, nfine_current, nfine_gather, inexflag, n_fine,
                    bmasks, sep2, tiles >>

\* FirstPartition with n_fine taken as the length of the back segment.
FirstPartition_CountsBuffer ==
    /\ pc = "filled"
    /\ pc' = "partitioned"
    /\ unsynced' = unsynced \cup {"stablePartition"}
    /\ LET r == stablePartition(pid, 0, np, inexflag)
       IN  /\ pid' = r.pid
           /\ n_fine' = np - r.sep
    /\ UNCHANGED << aux, inputs, nfine_current, nfine_gather, inexflag, bmasks,
                    sep2, tiles >>

\* Lines 79-84: stable-partition the whole of pid by inexflag; n_fine is the
\* number of particles outside the larger buffer.
FirstPartition ==
    /\ pc = "filled"
    /\ pc' = "partitioned"
    /\ unsynced' = unsynced \cup {"stablePartition"}
    /\ LET r == stablePartition(pid, 0, np, inexflag)
       IN  /\ pid' = r.pid
           /\ n_fine' = r.sep
    /\ UNCHANGED << aux, inputs, nfine_current, nfine_gather, inexflag, bmasks, sep2,
                    tiles >>

\* EqualBuffers with only the count of the selected (gather) buffer assigned.
EqualBuffers_OnlyGather ==
    /\ pc = "partitioned"
    /\ n_current_deposition_buffer = n_field_gather_buffer
    /\ pc' = "counted"
    /\ UNCHANGED unsynced
    /\ nfine_gather' = n_fine
    /\ nfine_current' = np
    /\ UNCHANGED << aux, inputs, inexflag, pid, n_fine, bmasks, sep2, tiles >>

\* Lines 90-92: the buffers have the same size, one pass serves both kinds.
EqualBuffers ==
    /\ pc = "partitioned"
    /\ n_current_deposition_buffer = n_field_gather_buffer
    /\ pc' = "counted"
    /\ UNCHANGED unsynced
    /\ nfine_current' = n_fine
    /\ nfine_gather' = n_fine
    /\ UNCHANGED << aux, inputs, inexflag, pid, n_fine, bmasks, sep2, tiles >>

\* Lines 93-95: no particle is in the larger buffer.
NoParticleInBuffer ==
    /\ pc = "partitioned"
    /\ n_current_deposition_buffer # n_field_gather_buffer
    /\ n_fine = np
    /\ pc' = "counted"
    /\ UNCHANGED unsynced
    /\ nfine_current' = np
    /\ nfine_gather' = np
    /\ UNCHANGED << aux, inputs, inexflag, pid, n_fine, bmasks, sep2, tiles >>

\* Lines 98-106: the mask and the width of the smaller buffer.
SmallerKind == IF bmasks = "gather" THEN "current" ELSE "gather"
n_buf ==
    IF bmasks = "gather" THEN n_current_deposition_buffer
                         ELSE n_field_gather_buffer

\* Lines 111-112: inexflag after the particles of the larger buffer have been
\* classified against the mask of the smaller one.
SecondFlags ==
    fillBufferFlagRemainingParticles(inexflag, MaskOf(SmallerKind), pid, n_fine)

\* Lines 96-121, r being the result of the partition of line 113.
SecondPassUsing(r) ==
    /\ pc = "partitioned"
    /\ n_current_deposition_buffer # n_field_gather_buffer
    /\ n_fine # np
    /\ pc' = "counted"
    /\ bmasks' = SmallerKind
    /\ IF n_buf > 0
       THEN /\ inexflag' = SecondFlags
            /\ pid' = r.pid
            /\ sep2' = r.sep
            /\ unsynced' = unsynced \cup {"fillBufferFlagRemainingParticles",
                                           "stablePartition"}
            /\ IF SmallerKind = "gather"
               THEN nfine_gather' = r.sep /\ nfine_current' = n_fine
               ELSE nfine_current' = r.sep /\ nfine_gather' = n_fine
       ELSE /\ UNCHANGED << inexflag, pid, sep2, unsynced >>
            /\ IF bmasks = "gather"
               THEN nfine_gather' = n_fine /\ UNCHANGED nfine_current
               ELSE nfine_current' = n_fine /\ UNCHANGED nfine_gather
    /\ UNCHANGED << aux, inputs, n_fine, tiles >>

\* SecondPass with a partition primitive that is not stable.
SecondPass_Unstable ==
    SecondPassUsing(unstablePartition(pid, n_fine, np, SecondFlags))

\* Lines 96-121: the count of the larger buffer is n_fine; when the smaller
\* buffer has a positive width, the particles of the larger buffer are
\* classified against the smaller one and pid[n_fine, np) is partitioned.
SecondPass ==
    SecondPassUsing(stablePartition(pid, n_fine, np, SecondFlags))

\* MainGridOverrides with each flag acting on the count of the other kind.
MainGridOverrides_FlagsExchanged ==
    /\ pc = "counted"
    /\ pc' = "overridden"
    /\ UNCHANGED unsynced
    /\ nfine_current' = IF m_gather_from_main_grid /\ lev > 0
                        THEN 0 ELSE nfine_current
    /\ nfine_gather' = IF m_deposit_on_main_grid /\ lev > 0
                       THEN 0 ELSE nfine_gather
    /\ UNCHANGED << aux, inputs, inexflag, pid, n_fine, bmasks, sep2, tiles >>

\* Lines 123-129: only deposit / gather to the coarsest grid.
MainGridOverrides ==
    /\ pc = "counted"
    /\ pc' = "overridden"
    /\ UNCHANGED unsynced
    /\ nfine_current' = IF m_deposit_on_main_grid /\ lev > 0
                        THEN 0 ELSE nfine_current
    /\ nfine_gather' = IF m_gather_from_main_grid /\ lev > 0
                       THEN 0 ELSE nfine_gather
    /\ UNCHANGED << aux, inputs, inexflag, pid, n_fine, bmasks, sep2, tiles >>

\* Line 132 with && for ||.
NeedsReorder_Both == nfine_current # np /\ nfine_gather # np

\* Line 132: the condition under which the tile is reordered.
NeedsReorder == nfine_current # np \/ nfine_gather # np

\* Line 132 false: the reorder block is skipped.
SkipReorder ==
    /\ pc = "overridden"
    /\ ~NeedsReorder
    /\ pc' = "reordered"
    /\ UNCHANGED unsynced
    /\ UNCHANGED << aux, inputs, nfine_current, nfine_gather, inexflag, pid,
                    n_fine,
                    bmasks, sep2, tiles >>

\* Lines 134-141: allocate the scratch tile and launch the gather kernel on
\* the stream; the call returns to the host before the kernel has run.
GatherParticles ==
    /\ pc = "overridden"
    /\ NeedsReorder
    /\ pc' = "gather_launched"
    /\ unsynced' = unsynced \cup {"gatherParticles"}
    /\ ptile_tmp' = FreshTile(np)
    /\ pending' = 0..(np - 1)
    /\ ngather' = ngather + 1
    /\ UNCHANGED << aux, inputs, nfine_current, nfine_gather, inexflag, pid,
                    n_fine,
                    bmasks, sep2, ptile, nswap >>

\* One thread of the gather kernel: destination slot k receives every
\* attribute of source slot pid[k]. The kernel holds the addresses of the
\* destination and source arrays, which swap() moves between the two tile
\* objects: once the tiles are swapped the destination arrays belong to ptile.
\* In a build without GPU support the kernel runs inside gatherParticles: that
\* is the schedule in which every GatherKernel step precedes Swap.
GatherKernel(k) ==
    /\ k \in pending
    /\ pending' = pending \ {k}
    /\ IF nswap = 0
       THEN /\ ptile_tmp' = [a \in Attrs |->
                               [ptile_tmp[a] EXCEPT ![k] = ptile[a][pid[k]]]]
            /\ UNCHANGED ptile
       ELSE /\ ptile' = [a \in Attrs |->
                           [ptile[a] EXCEPT ![k] = ptile_tmp[a][pid[k]]]]
            /\ UNCHANGED ptile_tmp
    /\ UNCHANGED << pc, aux, unsynced, inputs, nfine_current, nfine_gather,
                    inexflag, pid, n_fine, bmasks, sep2, ngather, nswap >>

\* Line 142 left out: the gathered data stays in the scratch tile.
Swap_Omitted ==
    /\ pc = "gather_launched"
    /\ pc' = "swapped"
    /\ UNCHANGED unsynced
    /\ UNCHANGED << aux, inputs, nfine_current, nfine_gather, inexflag, pid,
                    n_fine,
                    bmasks, sep2, tiles >>

\* Line 142: ptile.swap(ptile_tmp), done by the host without waiting for the
\* stream.
Swap ==
    /\ pc = "gather_launched"
    /\ pc' = "swapped"
    /\ UNCHANGED unsynced
    /\ ptile' = ptile_tmp
    /\ ptile_tmp' = ptile
    /\ nswap' = nswap + 1
    /\ UNCHANGED << aux, inputs, nfine_current, nfine_gather, inexflag, pid,
                    n_fine,
                    bmasks, sep2, pending, ngather >>

\* Lines 146-147 without the synchronisation: the host goes on while the
\* kernel may still be running.
StreamSynchronizeTile_NoWait ==
    /\ pc = "swapped"
    /\ pc' = "reordered"
    /\ UNCHANGED unsynced
    /\ ptile_tmp' = << >>
    /\ UNCHANGED << aux, inputs, nfine_current, nfine_gather, inexflag, pid,
                    n_fine,
                    bmasks, sep2, ptile, pending, ngather, nswap >>

\* Lines 146-147: Gpu::streamSynchronize() blocks until the gather kernel
\* has finished; the scratch tile is destroyed at the end of the block.
StreamSynchronizeTile ==
    /\ pc = "swapped"
    /\ pending = {}
    /\ pc' = "reordered"
    /\ unsynced' = {}
    /\ ptile_tmp' = << >>
    /\ UNCHANGED << aux, inputs, nfine_current, nfine_gather, inexflag, pid,
                    n_fine,
                    bmasks, sep2, ptile, pending, ngather, nswap >>

\* Line 150 left out: the host goes on to the return without waiting for the
\* stream.
StreamSynchronize_Omitted ==
    /\ pc = "reordered"
    /\ pc' = "synced"
    /\ UNCHANGED unsynced
    /\ UNCHANGED << aux, inputs, nfine_current, nfine_gather, inexflag, pid,
                    n_fine,
                    bmasks, sep2, tiles >>

\* Line 150: the last Gpu::streamSynchronize().
StreamSynchronize ==
    /\ pc = "reordered"
    /\ pending = {}
    /\ pc' = "synced"
    /\ unsynced' = {}
    /\ UNCHANGED << aux, inputs, nfine_current, nfine_gather, inexflag, pid,
                    n_fine,
                    bmasks, sep2, tiles >>

\* Line 151: the function returns; inexflag and pid are destroyed.
Return ==
    /\ pc = "synced"
    /\ pc' = "done"
    /\ UNCHANGED unsynced
    /\ inexflag' = << >>
    /\ pid' = << >>
    /\ UNCHANGED << aux, inputs, nfine_current, nfine_gather, n_fine, bmasks, sep2,
                    tiles >>

Next ==
    \/ Classify
    \/ FillPid
    \/ FirstPartition
    \/ EqualBuffers
    \/ NoParticleInBuffer
    \/ SecondPass
    \/ MainGridOverrides
    \/ SkipReorder
    \/ GatherParticles
    \/ \E k \in 0..(MaxNp - 1) : GatherKernel(k)
    \/ Swap
    \/ StreamSynchronizeTile
    \/ StreamSynchronize
    \/ Return

Spec == Init /\ [][Next]_vars

\* ------------------------------------------------- vocabulary of the claims

Particles == 0..(np - 1)
Kinds == {"current", "gather"}

\* the kind whose buffer is the larger one (ties go to gather)
PrimaryKind ==
    IF n_field_gather_buffer >= n_current_deposition_buffer
    THEN "gather" ELSE "current"
OtherKind(X) == IF X = "gather" THEN "current" ELSE "gather"

WidthOf(X) ==
    IF X = "gather" THEN n_field_gather_buffer ELSE n_current_deposition_buffer
NfineOf(X) == IF X = "gather" THEN nfine_gather ELSE nfine_current
OverrideApplies(X) ==
    IF X = "gather" THEN m_gather_from_main_grid /\ lev > 0
                    ELSE m_deposit_on_main_grid /\ lev > 0

FineSet(X) == {i \in Particles : MaskOf(X)[i] # 0}
BufferSet(X) == {i \in Particles : MaskOf(X)[i] = 0}

\* the particles at the positions lo, ..., hi-1 of pid
Segment(lo, hi) == {pid[k] : k \in lo..(hi - 1)}
\* the positions lo, ..., hi-1 of pid list particles in their original order
InOriginalOrder(lo, hi) ==
    \A k, m \in lo..(hi - 1) : k < m => pid[k] < pid[m]
PositionOf(i) == CHOOSE k \in DOMAIN pid : pid[k] = i
IsIdentity(p) == \A k \in DOMAIN p : p[k] = k

\* the states in which pid holds a permutation under construction or in use
PidInUse ==
    pc \in {"filled", "partitioned", "counted", "overridden",
            "gather_launched", "swapped", "reordered", "synced"}
\* the states in which both partitions are over and pid is still alive
Partitioned ==
    pc \in {"counted", "overridden", "gather_launched", "swapped",
            "reordered", "synced"}

\* tile t reordered by permutation p
Gathered(t, p) == [a \in Attrs |-> [k \in Particles |-> t[a][p[k]]]]

\* ------------------------------------------------------------------- C1
\* C1: on return both counts lie in [0, np], whatever the caller's variables
\* held on entry.
C1_CountsInRange ==
    pc = "done" => /\ nfine_current \in 0..np
                   /\ nfine_gather \in 0..np

\* ------------------------------------------------------------------- C2
\* C2 (as claimed): on return, for each kind X, pid[0, nfine_X) lists exactly
\* the particles X's mask classifies as fine and pid[nfine_X, np) exactly the
\* ones it classifies as buffer, both in original relative order.
C2_EachKindSplitInOrder ==
    pc = "synced" =>
        \A X \in Kinds :
            LET n == NfineOf(X)
            IN  /\ n \in 0..np
                /\ Segment(0, n) = FineSet(X)
                /\ InOriginalOrder(0, n)
                /\ Segment(n, np) = BufferSet(X)
                /\ InOriginalOrder(n, np)

\* C2 (amended): on return, for the primary kind, when no override applies to
\* it, pid[0, nfine) lists exactly its fine particles in original order and
\* pid[nfine, np) holds exactly its buffer particles (in original order when
\* no second partition ran); for the other kind, when no override applies to
\* it, either the widths differ, its width is positive and the masks are
\* nested (fine for the primary implies fine for the other), and then
\* pid[0, nfine) holds exactly its fine particles and pid[nfine, np) lists
\* exactly its buffer particles in original order, or the widths are equal
\* and the two masks agree on every particle, and then both segments are
\* exact and in original order.
C2_SplitPerKind ==
    pc = "synced" =>
        LET P == PrimaryKind
            O == OtherKind(PrimaryKind)
        IN  /\ ~OverrideApplies(P) =>
                  /\ NfineOf(P) \in 0..np
                  /\ Segment(0, NfineOf(P)) = FineSet(P)
                  /\ InOriginalOrder(0, NfineOf(P))
                  /\ Segment(NfineOf(P), np) = BufferSet(P)
                  /\ sep2 = -1 => InOriginalOrder(NfineOf(P), np)
            /\ ( /\ ~OverrideApplies(O)
                 /\ WidthOf(O) > 0
                 /\ WidthOf(P) # WidthOf(O)
                 /\ FineSet(P) \subseteq FineSet(O) ) =>
                  /\ NfineOf(O) \in 0..np
                  /\ Segment(0, NfineOf(O)) = FineSet(O)
                  /\ Segment(NfineOf(O), np) = BufferSet(O)
                  /\ InOriginalOrder(NfineOf(O), np)
            /\ ( /\ ~OverrideApplies(O)
                 /\ WidthOf(P) = WidthOf(O)
                 /\ FineSet(P) = FineSet(O) ) =>
                  /\ NfineOf(O) \in 0..np
                  /\ Segment(0, NfineOf(O)) = FineSet(O)
                  /\ InOriginalOrder(0, NfineOf(O))
                  /\ Segment(NfineOf(O), np) = BufferSet(O)
                  /\ InOriginalOrder(NfineOf(O), np)

\* C2 witness: behind a non-empty front segment, a second pass over nested
\* masks has found particles that are fine for the other kind, and pid is not
\* the identity.
C2_Witness ==
    /\ pc = "synced"
    /\ ~OverrideApplies("current") /\ ~OverrideApplies("gather")
    /\ FineSet(PrimaryKind) \subseteq FineSet(OtherKind(PrimaryKind))
    /\ sep2 # -1
    /\ 0 < n_fine /\ n_fine < sep2
    /\ ~IsIdentity(pid)

\* ------------------------------------------------------------------- C3
\* the classification flags particle i and particle j received are identical
SameFlags(i, j) ==
    /\ MaskOf(PrimaryKind)[i] = MaskOf(PrimaryKind)[j]
    /\ (sep2 # -1 /\ MaskOf(PrimaryKind)[i] = 0) =>
           MaskOf(OtherKind(PrimaryKind))[i] = MaskOf(OtherKind(PrimaryKind))[j]

\* C3: stability of the two-level partition: once the partition is done, two
\* particles i < j with identical classification flags appear in pid in that
\* order.
C3_Stability ==
    (pc = "partitioned" \/ Partitioned) =>
        \A i, j \in Particles :
            (i < j /\ SameFlags(i, j)) => PositionOf(i) < PositionOf(j)

\* C3 witness: the second pass has partitioned a back segment that holds two
\* particles with identical flags, and has moved some particle.
C3_Witness ==
    /\ pc = "synced"
    /\ sep2 # -1
    /\ \E i, j \in Particles :
          /\ i < j /\ SameFlags(i, j)
          /\ PositionOf(i) >= n_fine
          /\ PositionOf(i) < PositionOf(j)

\* ------------------------------------------------------------------- C4
\* C4: from fillWithConsecutiveIntegers on, pid has length np and holds each
\* index 0..np-1 exactly once.
C4_PidIsBijection ==
    PidInUse =>
        /\ DOMAIN pid = Particles
        /\ \A i \in Particles : Cardinality({k \in DOMAIN pid : pid[k] = i}) = 1

\* C4 witness: the gather is running with a pid that both passes have
\* permuted.
C4_Witness ==
    /\ pc = "gather_launched"
    /\ sep2 # -1
    /\ ~IsIdentity(pid)

\* ------------------------------------------------------------------- C5
\* C5 (as claimed): equal widths give equal counts on return, for every
\* setting of level and main-grid flags.
C5_EqualWidthsEqualCounts ==
    (pc = "done" /\ n_current_deposition_buffer = n_field_gather_buffer) =>
        nfine_current = nfine_gather

\* C5 (amended): equal widths give equal counts on return when the main-grid
\* override applies to both kinds or to neither.
C5_EqualWidthsEqualCountsSameOverride ==
    ( /\ pc = "done"
      /\ n_current_deposition_buffer = n_field_gather_buffer
      /\ OverrideApplies("current") <=> OverrideApplies("gather") ) =>
        nfine_current = nfine_gather

\* C5 witness: equal positive widths, no override, a proper split.
C5_Witness ==
    /\ pc = "done"
    /\ n_current_deposition_buffer = n_field_gather_buffer
    /\ n_current_deposition_buffer > 0
    /\ ~OverrideApplies("current") /\ ~OverrideApplies("gather")
    /\ nfine_current = nfine_gather
    /\ 0 < nfine_current /\ nfine_current < np

\* ------------------------------------------------------------------- C6
\* C6: with both widths 0 (and no main-grid override in force) both counts
\* returned are np, whatever the masks hold.
C6_BothWidthsZero ==
    ( /\ pc = "done"
      /\ n_current_deposition_buffer = 0 /\ n_field_gather_buffer = 0
      /\ ~OverrideApplies("current") /\ ~OverrideApplies("gather") ) =>
        (nfine_current = np /\ nfine_gather = np)

\* ------------------------------------------------------------------- C7
\* C7: when exactly one width is 0 and no main-grid override applies, the
\* count returned for the zero-width kind is np, whatever the other mask
\* holds and whatever the output variable held on entry.
C7_ZeroWidthKindIsDisabled ==
    ( /\ pc = "done"
      /\ ~OverrideApplies("current") /\ ~OverrideApplies("gather") ) =>
        \A X \in Kinds :
            (WidthOf(X) = 0 /\ WidthOf(OtherKind(X)) # 0) => NfineOf(X) = np

\* ------------------------------------------------------------------- C8
\* C8: the tile is reordered exactly once, by the final pid, iff a final
\* count differs from np; otherwise there is no gather and no swap and the
\* tile is as on entry.
C8_ReorderedOnceIffCountsDiffer ==
    /\ ngather <= 1 /\ nswap <= 1
    /\ pc \in {"synced", "done"} =>
         IF nfine_current # np \/ nfine_gather # np
         THEN /\ ngather = 1 /\ nswap = 1
              /\ pc = "synced" => ptile = Gathered(EntryTile(np), pid)
         ELSE /\ ngather = 0 /\ nswap = 0
              /\ ptile = EntryTile(np)

\* C8 witness: exactly one count differs from np and the tile has been
\* reordered once.
C8_Witness ==
    /\ pc = "synced"
    /\ nfine_current # np /\ nfine_gather = np
    /\ ngather = 1 /\ nswap = 1
    /\ ptile # EntryTile(np)

\* ------------------------------------------------------------------- C9
\* C9: after the tile has been reordered, slot k of every attribute array holds what slot
\* pid[k] held on entry; the identity pid leaves the tile unchanged, and
\* every row of the entry tile occurs exactly once.
C9_GatherLaw ==
    (pc = "synced" /\ ngather = 1) =>
        /\ \A a \in Attrs :
              /\ DOMAIN ptile[a] = Particles
              /\ \A k \in Particles : ptile[a][k] = EntryTile(np)[a][pid[k]]
              /\ \A i \in Particles :
                    Cardinality({k \in Particles :
                                    ptile[a][k] = EntryTile(np)[a][i]}) = 1
        /\ IsIdentity(pid) => ptile = EntryTile(np)

\* C9 witness: a tile reordered by a pid that is not the identity.
C9_Witness ==
    /\ pc = "synced" /\ nswap = 1
    /\ ~IsIdentity(pid)
    /\ \A a \in Attrs : \A k \in Particles : ptile[a][k] = << a, pid[k] >>

\* ------------------------------------------------------------------ C10
\* C10 (as claimed): in every state the live tile holds either the complete
\* original data or the complete reordered data.
C10_LiveTileNeverPartial ==
    pc # "done" =>
        \/ ptile = EntryTile(np)
        \/ (DOMAIN pid = Particles /\ ptile = Gathered(EntryTile(np), pid))

\* C10 (amended): the gather writes a fresh scratch tile and only reads the
\* original arrays; the swap is issued without waiting for the gather, so
\* between the swap and the synchronisation of line 146 the live tile holds
\* the slots already gathered and unwritten slots otherwise, while the
\* original data stays complete in the other tile object; before the swap
\* the live tile is the complete original, and from that synchronisation on
\* (in particular on return) it is the complete reordered tile.
C10_CompleteOutsideSwapWindow ==
    /\ nswap = 0 => ptile = EntryTile(np)
    /\ pc = "gather_launched" =>
          \A a \in Attrs : \A k \in Particles :
              ptile_tmp[a][k] =
                  IF k \in pending THEN Unwritten ELSE EntryTile(np)[a][pid[k]]
    /\ pc = "swapped" =>
          /\ ptile_tmp = EntryTile(np)
          /\ \A a \in Attrs : \A k \in Particles :
                ptile[a][k] =
                    IF k \in pending THEN Unwritten ELSE EntryTile(np)[a][pid[k]]
    /\ (nswap = 1 /\ pc \in {"reordered", "synced"}) =>
          ptile = Gathered(EntryTile(np), pid)
    /\ pc \in {"reordered", "synced", "done"} =>
          /\ pending = {}
          /\ \A a \in Attrs : \A k \in Particles : ptile[a][k] # Unwritten

\* C10 witness: the tiles are swapped while the gather is half done.
C10_Witness ==
    /\ pc = "swapped"
    /\ pending # {} /\ pending # Particles
    /\ \E a \in Attrs : \E k \in Particles : ptile[a][k] = Unwritten

\* ---------------------------------------------------------------------- C11
\* C11: on the reorder path and on the no-reorder path alike, inexflag and
\* pid are released (the function has returned) only when no kernel launched
\* on the stream is left without a following Gpu::streamSynchronize() and no
\* thread of the gather kernel is outstanding; the same holds of the scratch
\* tile once it has been allocated and destroyed; and as long as a thread of
\* the gather kernel is outstanding, the scratch tile is still allocated and
\* the function has not returned.
C11_ReleasedAfterSynchronize ==
    /\ pc = "done" => unsynced = {} /\ pending = {}
    /\ (ngather > 0 /\ ptile_tmp = << >>) => unsynced = {} /\ pending = {}
    /\ pending # {} => pc # "done" /\ ptile_tmp # << >>

\* the function has returned after a reorder of a non-empty tile
C11_Witness == pc = "done" /\ ngather = 1 /\ ptile_tmp = << >> /\ np > 0

\* ---------------------------------------------------------------------- C18
\* C18: the mask of the first pass is the gather mask when Wg >= Wc and the
\* deposition mask when Wc > Wg; n_fine is the number of particles that mask
\* classifies as fine; and the count of that kind is n_fine once the counts
\* are computed, whichever of the three branches computed it, and is still
\* n_fine on return unless the main-grid override of that kind applies.
C18_PrimaryCountIsNFine ==
    LET P == IF n_field_gather_buffer >= n_current_deposition_buffer
             THEN "gather" ELSE "current"
    IN  /\ pc \in {"classified", "filled", "partitioned"} =>
               /\ bmasks = P
               /\ \A i \in Particles : inexflag[i] = MaskOf(P)[i]
        /\ pc \notin {"entry", "classified", "filled"} =>
               n_fine = Cardinality({i \in Particles : MaskOf(P)[i] # 0})
        /\ pc = "counted" => NfineOf(P) = n_fine
        /\ (pc \in {"overridden", "gather_launched", "swapped", "reordered",
                     "synced", "done"} /\ ~OverrideApplies(P)) =>
               NfineOf(P) = n_fine

\* a return through the two-pass branch, the deposition buffer being the
\* larger one, with a fine particle after a buffer particle
C18_Witness ==
    /\ pc = "done"
    /\ n_current_deposition_buffer > n_field_gather_buffer
    /\ ~OverrideApplies("current")
    /\ nfine_current = 1
    /\ np = 2
    /\ current_masks[0] = 0

\* ---------------------------------------------------------------------- C19
\* the step that takes the two-pass branch (lines 96-121): the widths differ
\* and the back segment is not empty
SecondPassStep ==
    /\ pc = "partitioned"
    /\ pc' = "counted"
    /\ n_current_deposition_buffer # n_field_gather_buffer
    /\ n_fine # np

\* the frame of the second pass: the flags of the particles of the front
\* segment and the front segment of pid are as the first pass left them, and
\* the back segment holds the same particles as before
SecondPassLeavesFrontUntouched ==
    [][SecondPassStep =>
         /\ \A k \in 0..(n_fine - 1) :
                pid'[k] = pid[k] /\ inexflag'[pid[k]] = inexflag[pid[k]]
         /\ {pid'[k] : k \in n_fine..(np - 1)} =
                {pid[k] : k \in n_fine..(np - 1)}
         /\ n_fine' = n_fine]_vars

\* C19: in the two-pass branch only the back segment pid[n_fine, np) is
\* reclassified and re-partitioned, the front segment is left as the first
\* pass produced it, the count of the primary kind is n_fine, and the count
\* of the other kind is a position of the back segment, n_fine <= count <= np.
C19_SecondPassFrame ==
    [][SecondPassStep =>
         /\ \A k \in 0..(n_fine - 1) :
                pid'[k] = pid[k] /\ inexflag'[pid[k]] = inexflag[pid[k]]
         /\ {pid'[k] : k \in n_fine..(np - 1)} =
                {pid[k] : k \in n_fine..(np - 1)}
         /\ NfineOf(PrimaryKind)' = n_fine
         /\ NfineOf(OtherKind(PrimaryKind))' \in n_fine..np]_vars

\* ---------------------------------------------------------------------- C20
\* C20: the counts change after they are computed only in one step, which
\* comes before the reorder decision (no gather has been launched): in that
\* step nfine_current becomes 0 if the deposit-on-main-grid flag is set and
\* lev > 0 and is unchanged otherwise, nfine_gather becomes 0 if the
\* gather-from-main-grid flag is set and lev > 0 and is unchanged otherwise,
\* and the permutation is untouched; no later step changes either count.
C20_MainGridOverrides ==
    [][/\ pc = "counted" =>
            /\ ngather = 0 /\ ngather' = 0
            /\ nfine_current' = IF m_deposit_on_main_grid /\ lev > 0
                                THEN 0 ELSE nfine_current
            /\ nfine_gather' = IF m_gather_from_main_grid /\ lev > 0
                               THEN 0 ELSE nfine_gather
            /\ pid' = pid
       /\ pc \in {"overridden", "gather_launched", "swapped", "reordered",
                  "synced", "done"} =>
            /\ nfine_current' = nfine_current
            /\ nfine_gather' = nfine_gather]_vars

\* on a refined level the deposition count has been overridden to 0 while
\* the gather count, computed as 1 of 2, is returned as computed
C20_Witness ==
    /\ pc = "done"
    /\ lev > 0
    /\ m_deposit_on_main_grid
    /\ ~m_gather_from_main_grid
    /\ n_current_deposition_buffer > 0
    /\ np = 2
    /\ Cardinality(FineSet("current")) = 1
    /\ nfine_current = 0
    /\ nfine_gather = 1

\* ======================================================== InjectorPosition
\* Source/Initialization/InjectorPosition.H: the position samplers and the
\* region of InjectorPosition. Each device function is a specification of
\* its own over call and ret; PartitionParticlesInBuffers is not running.

PartitionIdle ==
    /\ pc = "idle"
    /\ np = 0
    /\ n_current_deposition_buffer = 0
    /\ n_field_gather_buffer = 0
    /\ lev = 0
    /\ m_deposit_on_main_grid = FALSE
    /\ m_gather_from_main_grid = FALSE
    /\ current_masks = << >>
    /\ gather_masks = << >>
    /\ nfine_current = 0
    /\ nfine_gather = 0
    /\ inexflag = << >>
    /\ pid = << >>
    /\ n_fine = -1
    /\ bmasks = "none"
    /\ sep2 = -1
    /\ ptile = EntryTile(0)
    /\ ptile_tmp = << >>
    /\ pending = {}
    /\ ngather = 0
    /\ nswap = 0
    /\ unsynced = {}

\* bounds of the sampler: particles per cell and refinement ratio along one
\* axis, and the number of values amrex::Random can return
MaxPpc == 2
MaxRef == 2
RandomDen == 2

\* A real number is the pair << numerator, denominator >> of a fraction with
\* a positive denominator.
Zero == << 0, 1 >>
InUnitInterval(q) == q[1] >= 0 /\ q[1] < q[2]
IsZero(q) == q[1] = 0

\* amrex::Random(engine): a value of [0, 1)
RandomValues == {<< k, RandomDen >> : k \in 0..(RandomDen - 1)}

\* the dimensionality the code is compiled for
Dims == {"3D", "RZ", "XZ", "1D_Z"}

\* the components of the returned XDim3 the compiled dimensionality does not
\* use: x and z come first in XZ, z comes first in 1D_Z
InactiveComponents(dim) ==
    IF dim = "XZ" THEN {3} ELSE IF dim = "1D_Z" THEN {2, 3} ELSE {}

\* InjectorPositionRandom::getPositionUnitBox (lines 24-28), r1, r2, r3
\* being the values of the three calls of amrex::Random
InjectorPositionRandom(dim, r1, r2, r3) == << r1, r2, r3 >>

\* InjectorPositionRandomPlane with the 3D branch taken in every build.
InjectorPositionRandomPlane_NoCollapse(dim, dir, r1, r2) ==
    IF dir = 0 THEN << Zero, r1, r2 >>
    ELSE IF dir = 1 THEN << r1, Zero, r2 >>
    ELSE << r1, r2, Zero >>

\* InjectorPositionRandomPlane::getPositionUnitBox (lines 40-60), r1 and r2
\* being the values of the calls of amrex::Random
InjectorPositionRandomPlane(dim, dir, r1, r2) ==
    IF dim \in {"3D", "RZ"}
    THEN IF dir = 0 THEN << Zero, r1, r2 >>
         ELSE IF dir = 1 THEN << r1, Zero, r2 >>
         ELSE << r1, r2, Zero >>
    ELSE IF dim = "XZ"
    THEN IF dir = 0 THEN << Zero, r1, Zero >>
         ELSE IF dir = 1 THEN << r1, r2, Zero >>
         ELSE << r1, Zero, Zero >>
    ELSE IF dir = 0 THEN << r1, Zero, Zero >>
         ELSE IF dir = 1 THEN << r1, Zero, Zero >>
         ELSE << Zero, Zero, Zero >>

\* lines 85-99: the number of particles along each axis
RegularCounts(dim, ref_fac, ppc) ==
    [ nx |-> ref_fac[1] * ppc[1],
      ny |-> IF dim = "1D_Z" THEN 1 ELSE ref_fac[2] * ppc[2],
      nz |-> IF dim = "3D" THEN ref_fac[3] * ppc[3]
             ELSE IF dim = "RZ" THEN ppc[3]
             ELSE 1 ]

\* InjectorPositionRegular with iz_part obtained by a division by nz.
InjectorPositionRegular_DivNz(dim, i_part, ref_fac, ppc) ==
    LET n == RegularCounts(dim, ref_fac, ppc)
        ix_part == i_part \div (n.ny * n.nz)
        iz_part == (i_part - ix_part * (n.ny * n.nz)) \div n.nz
        iy_part == (i_part - ix_part * (n.ny * n.nz)) - n.ny * iz_part
    IN  [ idx |-> << ix_part, iy_part, iz_part >>,
          pos |-> << << 2 * ix_part + 1, 2 * n.nx >>,
                     << 2 * iy_part + 1, 2 * n.ny >>,
                     << 2 * iz_part + 1, 2 * n.nz >> >> ]

\* InjectorPositionRegular::getPositionUnitBox (lines 78-108): i_part and the
\* counts are non-negative, so the integer divisions of the code are \div;
\* (0.5 + i) / n is the fraction (2 i + 1) / (2 n)
InjectorPositionRegular(dim, i_part, ref_fac, ppc) ==
    LET n == RegularCounts(dim, ref_fac, ppc)
        ix_part == i_part \div (n.ny * n.nz)
        iz_part == (i_part - ix_part * (n.ny * n.nz)) \div n.ny
        iy_part == (i_part - ix_part * (n.ny * n.nz)) - n.ny * iz_part
    IN  [ idx |-> << ix_part, iy_part, iz_part >>,
          pos |-> << << 2 * ix_part + 1, 2 * n.nx >>,
                     << 2 * iy_part + 1, 2 * n.ny >>,
                     << 2 * iz_part + 1, 2 * n.nz >> >> ]

\* the number of lattice points of a cell
NumLattice(c) ==
    LET n == RegularCounts(c.dim, c.ref_fac, c.ppc) IN n.nx * n.ny * n.nz

\* A sampler and the build it runs in: the strategy, the compiled
\* dimensionality, the axis of InjectorPositionRandomPlane, the particles per
\* cell of InjectorPositionRegular and the refinement ratio of the call.
Triples(S) == {<< a, b, c >> : a \in S, b \in S, c \in S}
InjectorCalls ==
    {[strategy |-> "Random", dim |-> d, dir |-> 0,
      ppc |-> << 1, 1, 1 >>, ref_fac |-> << 1, 1, 1 >>] : d \in Dims}
    \cup
    {[strategy |-> "RandomPlane", dim |-> d, dir |-> a,
      ppc |-> << 1, 1, 1 >>, ref_fac |-> << 1, 1, 1 >>] :
        d \in Dims, a \in 0..2}
    \cup
    {[strategy |-> "Regular", dim |-> d, dir |-> 0, ppc |-> p, ref_fac |-> r] :
        d \in Dims, p \in Triples(1..MaxPpc), r \in Triples(1..MaxRef)}

\* ret.n is the number of calls made so far (the next i_part of the regular
\* sampler), ret.idx and ret.pos what the last call computed, ret.seen the
\* positions the regular sampler has returned so far.
InitInjector ==
    /\ PartitionIdle
    /\ par = "none"
    /\ call \in InjectorCalls
    /\ ret = [n |-> 0, idx |-> << 0, 0, 0 >>, pos |-> << Zero, Zero, Zero >>,
              seen |-> {}]

RandomGetPositionUnitBox ==
    /\ call.strategy = "Random"
    /\ \E r1, r2, r3 \in RandomValues :
          ret' = [n |-> 1, idx |-> << 0, 0, 0 >>,
                  pos |-> InjectorPositionRandom(call.dim, r1, r2, r3),
                  seen |-> {}]
    /\ UNCHANGED << partition_vars, call, par >>

RandomPlaneGetPositionUnitBox ==
    /\ call.strategy = "RandomPlane"
    /\ \E r1, r2 \in RandomValues :
          ret' = [n |-> 1, idx |-> << 0, 0, 0 >>,
                  pos |-> InjectorPositionRandomPlane(call.dim, call.dir,
                                                      r1, r2),
                  seen |-> {}]
    /\ UNCHANGED << partition_vars, call, par >>

\* the calls i_part = 0, 1, ... of the regular sampler for one cell
RegularGetPositionUnitBox ==
    /\ call.strategy = "Regular"
    /\ ret.n < NumLattice(call)
    /\ LET r == InjectorPositionRegular(call.dim, ret.n, call.ref_fac,
                                         call.ppc)
       IN  ret' = [n |-> ret.n + 1, idx |-> r.idx, pos |-> r.pos,
                   seen |-> ret.seen \cup {r.pos}]
    /\ UNCHANGED << partition_vars, call, par >>

NextInjector ==
    \/ RandomGetPositionUnitBox
    \/ RandomPlaneGetPositionUnitBox
    \/ RegularGetPositionUnitBox

SpecInjector == InitInjector /\ [][NextInjector]_vars

\* ---------------------------------------------------------------------- C13
\* the lattice of a cell: the centres of the nx x ny x nz sub-cells
Lattice(c) ==
    LET n == RegularCounts(c.dim, c.ref_fac, c.ppc)
    IN  {<< << 2 * a + 1, 2 * n.nx >>, << 2 * b + 1, 2 * n.ny >>,
            << 2 * e + 1, 2 * n.nz >> >> :
            a \in 0..(n.nx - 1), b \in 0..(n.ny - 1), e \in 0..(n.nz - 1)}

\* C13: the regular sampler maps the indices 0 <= i < nx*ny*nz one-to-one
\* onto the lattice points: every call returns indices with 0 <= ix < nx,
\* 0 <= iy < ny, 0 <= iz < nz and the lattice point of those indices, the
\* first n calls return n distinct points, and the nx*ny*nz calls together
\* return every lattice point.
C13_RegularIsBijection ==
    (call.strategy = "Regular" /\ ret.n > 0) =>
        LET n == RegularCounts(call.dim, call.ref_fac, call.ppc)
        IN  /\ ret.idx[1] \in 0..(n.nx - 1)
            /\ ret.idx[2] \in 0..(n.ny - 1)
            /\ ret.idx[3] \in 0..(n.nz - 1)
            /\ ret.pos \in Lattice(call)
            /\ Cardinality(ret.seen) = ret.n
            /\ ret.seen \subseteq Lattice(call)
            /\ ret.n = n.nx * n.ny * n.nz => ret.seen = Lattice(call)

\* the eight points of a 2 x 2 x 2 lattice have been returned in 3D
C13_Witness ==
    /\ call.strategy = "Regular"
    /\ call.dim = "3D"
    /\ call.ppc = << 2, 2, 2 >>
    /\ call.ref_fac = << 1, 1, 1 >>
    /\ ret.n = 8
    /\ ret.seen = {<< << a, 4 >>, << b, 4 >>, << e, 4 >> >> :
                      a \in {1, 3}, b \in {1, 3}, e \in {1, 3}}

\* ---------------------------------------------------------------------- C14
\* C14 (as claimed): whatever the strategy and the compiled dimensionality,
\* every component of the returned position lies in [0, 1) and every
\* component the dimensionality does not use is 0.
C14_InactiveComponentsZero ==
    ret.n > 0 =>
        \A k \in 1..3 :
            /\ InUnitInterval(ret.pos[k])
            /\ k \in InactiveComponents(call.dim) => IsZero(ret.pos[k])

\* C14 (amended): whatever the strategy and the compiled dimensionality,
\* every component of the returned position lies in [0, 1); a component the
\* dimensionality does not use is 0 for the random-plane sampler and 1/2 for
\* the regular sampler, and is one more draw of [0, 1) for the random
\* sampler.
C14_UnitBoxPerStrategy ==
    ret.n > 0 =>
        \A k \in 1..3 :
            /\ InUnitInterval(ret.pos[k])
            /\ k \in InactiveComponents(call.dim) =>
                   /\ call.strategy = "RandomPlane" => IsZero(ret.pos[k])
                   /\ call.strategy = "Regular" =>
                          2 * ret.pos[k][1] = ret.pos[k][2]
                   /\ call.strategy = "Random" => ret.pos[k] \in RandomValues

\* the random-plane sampler built for XZ, with the plane normal to y: two
\* nonzero draws in the components of x and z, 0 in the unused one
C14_Witness ==
    /\ call.strategy = "RandomPlane"
    /\ call.dim = "XZ"
    /\ call.dir = 1
    /\ ret.n = 1
    /\ ~IsZero(ret.pos[1])
    /\ ~IsZero(ret.pos[2])
    /\ IsZero(ret.pos[3])

\* ------------------------------------------------- the region of a sampler
\* Coordinates are integers of 0..MaxCoord: the region tests only compare
\* them.
MaxCoord == 1
Coords == 0..MaxCoord

\* the arguments of a constructor of InjectorPosition and the point tested
RegionCalls ==
    [a_xmin : Coords, a_xmax : Coords, a_ymin : Coords, a_ymax : Coords,
     a_zmin : Coords, a_zmax : Coords, x : Coords, y : Coords, z : Coords]

\* insideBoundsInclusive with the lower faces excluded.
insideBoundsInclusive_StrictLower(r, x, y, z) ==
    /\ x <= r.xmax /\ x > r.xmin
    /\ y <= r.ymax /\ y > r.ymin
    /\ z <= r.zmax /\ z > r.zmin

\* lines 199-207, r holding the members xmin, ..., zmax
insideBounds(r, x, y, z) ==
    /\ x < r.xmax /\ x >= r.xmin
    /\ y < r.ymax /\ y >= r.ymin
    /\ z < r.zmax /\ z >= r.zmin

\* lines 214-222
insideBoundsInclusive(r, x, y, z) ==
    /\ x <= r.xmax /\ x >= r.xmin
    /\ y <= r.ymax /\ y >= r.ymin
    /\ z <= r.zmax /\ z >= r.zmin

Answer(b) == IF b THEN "yes" ELSE "no"

\* ret.state is "unconstructed" before the constructor has run and
\* "constructed" once it has returned; ret.inside and ret.inclusive are what
\* the two tests have returned for the point of the call ("unknown" before)
InitRegion ==
    /\ PartitionIdle
    /\ par = "none"
    /\ call \in RegionCalls
    /\ ret = [state |-> "unconstructed",
              xmin |-> 0, xmax |-> 0, ymin |-> 0, ymax |-> 0,
              zmin |-> 0, zmax |-> 0,
              inside |-> "unknown", inclusive |-> "unknown"]

\* lines 122-158: each constructor stores the six bounds as given and
\* returns
ConstructInjectorPosition ==
    /\ ret.state = "unconstructed"
    /\ ret' = [ret EXCEPT !.state = "constructed",
                          !.xmin = call.a_xmin, !.xmax = call.a_xmax,
                          !.ymin = call.a_ymin, !.ymax = call.a_ymax,
                          !.zmin = call.a_zmin, !.zmax = call.a_zmax]
    /\ UNCHANGED << partition_vars, call, par >>

CallInsideBounds ==
    /\ ret.state = "constructed"
    /\ ret.inside = "unknown"
    /\ ret' = [ret EXCEPT
                 !.inside = Answer(insideBounds(ret, call.x, call.y, call.z))]
    /\ UNCHANGED << partition_vars, call, par >>

CallInsideBoundsInclusive ==
    /\ ret.state = "constructed"
    /\ ret.inclusive = "unknown"
    /\ ret' = [ret EXCEPT
                 !.inclusive =
                    Answer(insideBoundsInclusive(ret, call.x, call.y, call.z))]
    /\ UNCHANGED << partition_vars, call, par >>

NextRegion ==
    \/ ConstructInjectorPosition
    \/ CallInsideBounds
    \/ CallInsideBoundsInclusive

SpecRegion == InitRegion /\ [][NextRegion]_vars

\* ---------------------------------------------------------------------- C15
\* C15: a point insideBounds accepts is accepted by insideBoundsInclusive;
\* insideBounds accepts the points with min <= p < max on every axis and
\* insideBoundsInclusive the points with min <= p <= max on every axis.
C15_InsideImpliesInclusive ==
    (ret.inside # "unknown" /\ ret.inclusive # "unknown") =>
        LET lo == << call.a_xmin, call.a_ymin, call.a_zmin >>
            hi == << call.a_xmax, call.a_ymax, call.a_zmax >>
            p == << call.x, call.y, call.z >>
        IN  /\ ret.inside = "yes" => ret.inclusive = "yes"
            /\ ret.inside = "yes" <=>
                   \A k \in 1..3 : lo[k] <= p[k] /\ p[k] < hi[k]
            /\ ret.inclusive = "yes" <=>
                   \A k \in 1..3 : lo[k] <= p[k] /\ p[k] <= hi[k]

\* a point of the upper x face of a box with a non-empty interior: rejected
\* by insideBounds, accepted by insideBoundsInclusive
C15_Witness ==
    /\ ret.inside = "no"
    /\ ret.inclusive = "yes"
    /\ call.x = call.a_xmax
    /\ call.a_xmin < call.a_xmax
    /\ call.a_ymin <= call.y /\ call.y < call.a_ymax
    /\ call.a_zmin <= call.z /\ call.z < call.a_zmax

\* ---------------------------------------------------------------------- C17
\* C17: a precondition violation is not silently accepted. For a region
\* whose lower bound exceeds its upper bound on some axis: the constructor
\* never returns normally, and no membership test ever returns an answer.
C17_InvalidRegionFailsFast ==
    (\/ call.a_xmin > call.a_xmax
     \/ call.a_ymin > call.a_ymax
     \/ call.a_zmin > call.a_zmax) =>
        /\ ret.state # "constructed"
        /\ ret.inside = "unknown"
        /\ ret.inclusive = "unknown"

\* ========================================================== UpdatePosition
\* Source/Particles/Pusher/UpdatePosition.H. amrex::ParticleReal is modelled
\* by a fixed-point number: the integer n stands for n / Unit, and every
\* product, quotient and square root is rounded towards zero to a multiple
\* of 1 / Unit, as each floating-point operation of the code is rounded.
Unit == 4
MaxU == 1
MaxDt == 1
MaxPos == 1

Trunc(n, d) == IF n >= 0 THEN n \div d ELSE -((-n) \div d)
FMul(a, b) == Trunc(a * b, Unit)
FDiv(a, b) == Trunc(a * Unit, b)
FSqrt(a) == CHOOSE r \in 0..(a + Unit) :
                r * r <= a * Unit /\ (r + 1) * (r + 1) > a * Unit

\* PhysConst::c, in units in which it is 1
PhysConst_c == FDiv(Unit, Unit)
\* lines 30 and 62
inv_c2 == FDiv(Unit, FMul(PhysConst_c, PhysConst_c))

\* PushedPosition with the three axes pushed in every build.
PushedPosition_AllAxes(dim, x, y, z, ux, uy, uz, inv_gamma, dt) ==
    << x + FMul(FMul(ux, inv_gamma), dt),
       y + FMul(FMul(uy, inv_gamma), dt),
       z + FMul(FMul(uz, inv_gamma), dt) >>

\* lines 36-46 and 73-84: the axes pushed in each build
\* (AMREX_SPACEDIM is 3 in 3D, 2 in RZ and XZ, 1 in 1D_Z)
PushedPosition(dim, x, y, z, ux, uy, uz, inv_gamma, dt) ==
    << IF dim # "1D_Z" THEN x + FMul(FMul(ux, inv_gamma), dt) ELSE x,
       IF dim \in {"3D", "RZ"} THEN y + FMul(FMul(uy, inv_gamma), dt) ELSE y,
       z + FMul(FMul(uz, inv_gamma), dt) >>

\* UpdatePosition (lines 23-46): the new (x, y, z)
UpdatePosition(dim, x, y, z, ux, uy, uz, dt) ==
    LET inv_gamma ==
            FDiv(Unit, FSqrt(Unit + FMul(FMul(ux, ux) + FMul(uy, uy)
                                          + FMul(uz, uz), inv_c2)))
    IN  PushedPosition(dim, x, y, z, ux, uy, uz, inv_gamma, dt)

\* UpdatePositionImplicit with u_np1 = 2 u + u_n.
UpdatePositionImplicit_PlusUn(dim, x, y, z, ux_n, uy_n, uz_n, ux, uy, uz, dt) ==
    LET ux_np1 == 2 * ux + ux_n
        uy_np1 == 2 * uy + uy_n
        uz_np1 == 2 * uz + uz_n
        gamma_n ==
            FSqrt(Unit + FMul(FMul(ux_n, ux_n) + FMul(uy_n, uy_n)
                               + FMul(uz_n, uz_n), inv_c2))
        gamma_np1 ==
            FSqrt(Unit + FMul(FMul(ux_np1, ux_np1) + FMul(uy_np1, uy_np1)
                               + FMul(uz_np1, uz_np1), inv_c2))
        inv_gamma == FDiv(2 * Unit, gamma_n + gamma_np1)
    IN  PushedPosition(dim, x, y, z, ux, uy, uz, inv_gamma, dt)

\* UpdatePositionImplicit (lines 54-85): the new (x, y, z); 2._prt * u is
\* exact
UpdatePositionImplicit(dim, x, y, z, ux_n, uy_n, uz_n, ux, uy, uz, dt) ==
    LET ux_np1 == 2 * ux - ux_n
        uy_np1 == 2 * uy - uy_n
        uz_np1 == 2 * uz - uz_n
        gamma_n ==
            FSqrt(Unit + FMul(FMul(ux_n, ux_n) + FMul(uy_n, uy_n)
                               + FMul(uz_n, uz_n), inv_c2))
        gamma_np1 ==
            FSqrt(Unit + FMul(FMul(ux_np1, ux_np1) + FMul(uy_np1, uy_np1)
                               + FMul(uz_np1, uz_np1), inv_c2))
        inv_gamma == FDiv(2 * Unit, gamma_n + gamma_np1)
    IN  PushedPosition(dim, x, y, z, ux, uy, uz, inv_gamma, dt)

\* momenta of -MaxU/2 c, ..., MaxU/2 c, time steps of 0, ..., MaxDt, and
\* starting points with three different coordinates
Momenta == {k * (Unit \div 2) : k \in (0 - MaxU)..MaxU}
DtValues == {k * Unit : k \in 0..MaxDt}
Starts == {<< q, q + Unit, q + 2 * Unit >> : q \in 0..MaxPos}

\* A particle and the arguments of a push: the momentum u at time n+1/2,
\* and the momentum u_n at time n, which is either u itself or has the same
\* value on the three axes.
PushCalls ==
    {[dim |-> d, start |-> q, u |-> v, u_n |-> w, dt |-> t] :
        d \in Dims, q \in Starts, v \in Triples(Momenta),
        w \in {<< m, m, m >> : m \in Momenta}, t \in DtValues}
    \cup
    {[dim |-> d, start |-> q, u |-> v, u_n |-> v, dt |-> t] :
        d \in Dims, q \in Starts, v \in Triples(Momenta), t \in DtValues}

\* ret.explicit and ret.implicit are the positions the two pushes have
\* produced from call.start, once ret.pushed and ret.pushed_implicit are set
InitPush ==
    /\ PartitionIdle
    /\ par = "none"
    /\ call \in PushCalls
    /\ ret = [pushed |-> FALSE, explicit |-> call.start,
              pushed_implicit |-> FALSE, implicit |-> call.start]

CallUpdatePosition ==
    /\ ~ret.pushed
    /\ ret' = [ret EXCEPT
                 !.pushed = TRUE,
                 !.explicit =
                    UpdatePosition(call.dim,
                                   call.start[1], call.start[2], call.start[3],
                                   call.u[1], call.u[2], call.u[3], call.dt)]
    /\ UNCHANGED << partition_vars, call, par >>

CallUpdatePositionImplicit ==
    /\ ~ret.pushed_implicit
    /\ ret' = [ret EXCEPT
                 !.pushed_implicit = TRUE,
                 !.implicit =
                    UpdatePositionImplicit(call.dim,
                                   call.start[1], call.start[2], call.start[3],
                                   call.u_n[1], call.u_n[2], call.u_n[3],
                                   call.u[1], call.u[2], call.u[3], call.dt)]
    /\ UNCHANGED << partition_vars, call, par >>

NextPush ==
    \/ CallUpdatePosition
    \/ CallUpdatePositionImplicit

SpecPush == InitPush /\ [][NextPush]_vars

\* ---------------------------------------------------------------------- C16
\* C16: when the momentum at time n equals the momentum at time n+1/2,
\* UpdatePositionImplicit produces the same new (x, y, z) as UpdatePosition
\* with that momentum, for every starting position, time step and build.
C16_ImplicitReducesToExplicit ==
    (ret.pushed /\ ret.pushed_implicit /\ call.u_n = call.u) =>
        ret.implicit = ret.explicit

\* both pushes have moved a particle with u_n = u along every axis in 3D
C16_Witness ==
    /\ ret.pushed
    /\ ret.pushed_implicit
    /\ call.u_n = call.u
    /\ call.dim = "3D"
    /\ \A k \in 1..3 : ret.explicit[k] # call.start[k]
    /\ ret.implicit = ret.explicit

\* ============================================ parallel classification and
\* partition. PartitionParticlesInBuffers with the threads of the two
\* ParallelFor (lines 75 and 111) and the work units of the two
\* stablePartition (lines 79 and 113) run one at a time in any order. The
\* kernels of one stream run one after the other: the units of a kernel
\* start when the kernel launched before it is over.
\*   par.todo   threads of the running ParallelFor that have not run yet
\*   par.units  positions of pid the running partition has not placed yet
\*   par.lo     first position of the range being partitioned
\*   par.out    the output buffer of the running partition
NoPar == [todo |-> {}, units |-> {}, lo |-> 0, out |-> << >>]

InitPar ==
    /\ pc = "entry"
    /\ np \in 0..MaxNp
    /\ n_current_deposition_buffer \in 0..MaxWidth
    /\ n_field_gather_buffer \in 0..MaxWidth
    /\ lev \in 0..MaxLev
    /\ m_deposit_on_main_grid \in BOOLEAN
    /\ m_gather_from_main_grid \in BOOLEAN
    /\ current_masks \in [0..(np - 1) -> {0, 1}]
    /\ gather_masks \in [0..(np - 1) -> {0, 1}]
    /\ nfine_current \in {-1, np}
    /\ nfine_gather \in {-1, np}
    /\ inexflag = << >>
    /\ pid = << >>
    /\ n_fine = -1
    /\ bmasks = "none"
    /\ sep2 = -1
    /\ ptile = EntryTile(np)
    /\ ptile_tmp = << >>
    /\ pending = {}
    /\ ngather = 0
    /\ nswap = 0
    /\ unsynced = {}
    /\ call = [nfine_current |-> nfine_current, nfine_gather |-> nfine_gather]
    /\ ret = "none"
    /\ par = NoPar

\* Lines 61-75: allocate the temporaries, select the larger buffer and
\* launch one classification thread per particle.
LaunchClassify ==
    /\ pc = "entry"
    /\ pc' = IF np = 0 THEN "classified" ELSE "classifying"
    /\ unsynced' = unsynced \cup {"fillBufferFlag"}
    /\ bmasks' = IF n_field_gather_buffer >= n_current_deposition_buffer
                 THEN "gather" ELSE "current"
    /\ inexflag' = Resized(np)
    /\ pid' = Resized(np)
    /\ par' = [par EXCEPT !.todo = 0..(np - 1)]
    /\ UNCHANGED << call, ret, inputs, nfine_current, nfine_gather, n_fine,
                    sep2, tiles >>

\* fillBufferFlag::operator()(i): inexflag[i] = mask value at the cell of
\* particle i
ClassifyTask(i) ==
    /\ pc = "classifying"
    /\ i \in par.todo
    /\ inexflag' = [inexflag EXCEPT ![i] = MaskOf(bmasks)[i]]
    /\ par' = [par EXCEPT !.todo = par.todo \ {i}]
    /\ pc' = IF par.todo = {i} THEN "classified" ELSE "classifying"
    /\ UNCHANGED << call, ret, inputs, nfine_current, nfine_gather, pid,
                    n_fine, bmasks, sep2, tiles, unsynced >>

\* the positions of the range [par.lo, np) whose entry has a nonzero flag
FlaggedPositions == {m \in par.lo..(np - 1) : inexflag[pid[m]] # 0}

\* An unordered filter: the entry goes to the next free slot of its group,
\* in the order in which the units complete.
PartitionDest_CompletionOrder(k) ==
    LET placed == (par.lo..(np - 1)) \ par.units
    IN  IF k \in FlaggedPositions
        THEN par.lo + Cardinality(placed \cap FlaggedPositions)
        ELSE par.lo + Cardinality(FlaggedPositions)
                    + Cardinality(placed \ FlaggedPositions)

\* The slot of the output buffer the entry at position k goes to: behind the
\* entries of its group that precede it in the input, the group with a
\* nonzero flag first.
PartitionDest(k) ==
    LET before == par.lo..(k - 1)
    IN  IF k \in FlaggedPositions
        THEN par.lo + Cardinality(before \cap FlaggedPositions)
        ELSE par.lo + Cardinality(FlaggedPositions)
                    + Cardinality(before \ FlaggedPositions)

\* Line 79: launch the partition of the whole of pid.
LaunchPartition ==
    /\ pc = "filled"
    /\ pc' = "partitioning"
    /\ unsynced' = unsynced \cup {"stablePartition"}
    /\ par' = [par EXCEPT !.units = 0..(np - 1), !.lo = 0,
                          !.out = Resized(np)]
    /\ UNCHANGED << call, ret, inputs, nfine_current, nfine_gather, inexflag,
                    pid, n_fine, bmasks, sep2, tiles >>

\* One work unit of a partition: it places one entry of the input range.
PartitionUnit(k) ==
    /\ pc \in {"partitioning", "repartitioning"}
    /\ k \in par.units
    /\ par' = [par EXCEPT !.units = par.units \ {k},
                          !.out[PartitionDest(k)] = pid[k]]
    /\ UNCHANGED << pc, call, ret, inputs, nfine_current, nfine_gather,
                    inexflag, pid, n_fine, bmasks, sep2, tiles, unsynced >>

\* the range [par.lo, np) of pid replaced by the output buffer
PartitionOutput ==
    [k \in DOMAIN pid |-> IF k >= par.lo THEN par.out[k] ELSE pid[k]]

\* Lines 79-84: the partition is over; n_fine is the distance to the split.
FinishPartition ==
    /\ pc = "partitioning"
    /\ par.units = {}
    /\ pc' = "partitioned"
    /\ pid' = PartitionOutput
    /\ n_fine' = par.lo + Cardinality(FlaggedPositions)
    /\ par' = NoPar
    /\ UNCHANGED << call, ret, inputs, nfine_current, nfine_gather, inexflag,
                    bmasks, sep2, tiles, unsynced >>

\* Lines 96-111: the count of the larger buffer is n_fine; when the smaller
\* buffer has a positive width, launch one classification thread per
\* particle of the back segment.
LaunchSecondPass ==
    /\ pc = "partitioned"
    /\ n_current_deposition_buffer # n_field_gather_buffer
    /\ n_fine # np
    /\ bmasks' = SmallerKind
    /\ IF bmasks = "gather"
       THEN nfine_gather' = n_fine /\ UNCHANGED nfine_current
       ELSE nfine_current' = n_fine /\ UNCHANGED nfine_gather
    /\ IF n_buf > 0
       THEN /\ pc' = "reclassifying"
            /\ par' = [par EXCEPT !.todo = 0..(np - n_fine - 1)]
            /\ unsynced' = unsynced \cup {"fillBufferFlagRemainingParticles"}
       ELSE /\ pc' = "counted"
            /\ UNCHANGED << par, unsynced >>
    /\ UNCHANGED << call, ret, inputs, inexflag, pid, n_fine, sep2, tiles >>

\* fillBufferFlagRemainingParticles::operator()(i):
\* inexflag[pid[i + start]] = mask value at the cell of particle
\* pid[i + start], start being n_fine
ClassifyRemainingTask(i) ==
    /\ pc = "reclassifying"
    /\ i \in par.todo
    /\ inexflag' = [inexflag EXCEPT ![pid[i + n_fine]] =
                                      MaskOf(bmasks)[pid[i + n_fine]]]
    /\ par' = [par EXCEPT !.todo = par.todo \ {i}]
    /\ pc' = IF par.todo = {i} THEN "reclassified" ELSE "reclassifying"
    /\ UNCHANGED << call, ret, inputs, nfine_current, nfine_gather, pid,
                    n_fine, bmasks, sep2, tiles, unsynced >>

\* Line 113: launch the partition of pid[n_fine, np).
LaunchSecondPartition ==
    /\ pc = "reclassified"
    /\ pc' = "repartitioning"
    /\ unsynced' = unsynced \cup {"stablePartition"}
    /\ par' = [par EXCEPT !.units = n_fine..(np - 1), !.lo = n_fine,
                          !.out = Resized(np)]
    /\ UNCHANGED << call, ret, inputs, nfine_current, nfine_gather, inexflag,
                    pid, n_fine, bmasks, sep2, tiles >>

\* Lines 113-120: the second partition is over; the count of the smaller
\* buffer is the distance to its split.
FinishSecondPartition ==
    /\ pc = "repartitioning"
    /\ par.units = {}
    /\ pc' = "counted"
    /\ pid' = PartitionOutput
    /\ sep2' = par.lo + Cardinality(FlaggedPositions)
    /\ IF bmasks = "gather"
       THEN nfine_gather' = sep2' /\ UNCHANGED nfine_current
       ELSE nfine_current' = sep2' /\ UNCHANGED nfine_gather
    /\ par' = NoPar
    /\ UNCHANGED << call, ret, inputs, inexflag, n_fine, bmasks, tiles,
                    unsynced >>

NextPar ==
    \/ LaunchClassify
    \/ \E i \in 0..(MaxNp - 1) : ClassifyTask(i)
    \/ FillPid
    \/ LaunchPartition
    \/ \E k \in 0..(MaxNp - 1) : PartitionUnit(k)
    \/ FinishPartition
    \/ EqualBuffers
    \/ NoParticleInBuffer
    \/ LaunchSecondPass
    \/ \E i \in 0..(MaxNp - 1) : ClassifyRemainingTask(i)
    \/ LaunchSecondPartition
    \/ FinishSecondPartition
    \/ MainGridOverrides
    \/ SkipReorder
    \/ GatherParticles
    \/ \E k \in 0..(MaxNp - 1) : GatherKernel(k)
    \/ Swap
    \/ StreamSynchronizeTile
    \/ StreamSynchronize
    \/ Return

SpecPar == InitPar /\ [][NextPar]_vars

\* ---------------------------------------------------------------------- C12
\* What the inputs alone determine: the permutation, the counts and the tile
\* obtained when every kernel runs as one sequential loop.
ExpectedFirst ==
    stablePartition([i \in Particles |-> i], 0, np, MaskOf(PrimaryKind))
ExpectedTwoPasses ==
    /\ n_current_deposition_buffer # n_field_gather_buffer
    /\ ExpectedFirst.sep # np
    /\ WidthOf(OtherKind(PrimaryKind)) > 0
ExpectedSecond ==
    stablePartition(ExpectedFirst.pid, ExpectedFirst.sep, np,
                    MaskOf(OtherKind(PrimaryKind)))
ExpectedPid ==
    IF ExpectedTwoPasses THEN ExpectedSecond.pid ELSE ExpectedFirst.pid
ExpectedCount(X) ==
    IF OverrideApplies(X) THEN 0
    ELSE IF n_current_deposition_buffer = n_field_gather_buffer
         THEN ExpectedFirst.sep
    ELSE IF ExpectedFirst.sep = np THEN np
    ELSE IF X = PrimaryKind THEN ExpectedFirst.sep
    ELSE IF ExpectedTwoPasses THEN ExpectedSecond.sep
    ELSE IF X = "gather" THEN call.nfine_gather ELSE call.nfine_current
ExpectedTile ==
    IF ExpectedCount("current") # np \/ ExpectedCount("gather") # np
    THEN Gathered(EntryTile(np), ExpectedPid)
    ELSE EntryTile(np)

\* C12: whatever the order in which the classification threads and the work
\* units of the partitions have run, the final permutation, the two counts
\* and the tile are the ones the inputs determine.
C12_ScheduleIndependent ==
    /\ pc = "synced" => pid = ExpectedPid
    /\ pc \in {"synced", "done"} =>
          /\ nfine_current = ExpectedCount("current")
          /\ nfine_gather = ExpectedCount("gather")
          /\ ptile = ExpectedTile

\* in the second partition of a two-particle back segment, the unit of the
\* last entry has placed it in front while the unit of the first entry has
\* not run yet
C12_Witness ==
    /\ pc = "repartitioning"
    /\ np = 2
    /\ par.lo = 0
    /\ par.units = {0}
    /\ par.out[0] = 1

\* ---------------------------------------------------------------------- C21
\* the components of (x, y, z) the claim says each build pushes
EnabledAxes(dim) ==
    IF dim = "1D_Z" THEN {3} ELSE IF dim = "XZ" THEN {1, 3} ELSE {1, 2, 3}

\* the inverse Lorentz factor of the explicit push, 1 / sqrt(1 + |u|^2/c^2)
InvGammaOf(u) ==
    FDiv(Unit, FSqrt(Unit + FMul(FMul(u[1], u[1]) + FMul(u[2], u[2])
                                  + FMul(u[3], u[3]), inv_c2)))

\* the one of the implicit push, 2 / (gamma_n + gamma_np1)
GammaOf(u) ==
    FSqrt(Unit + FMul(FMul(u[1], u[1]) + FMul(u[2], u[2])
                       + FMul(u[3], u[3]), inv_c2))
InvGammaImplicitOf(u_n, u) ==
    FDiv(2 * Unit,
         GammaOf(u_n) + GammaOf([k \in 1..3 |-> 2 * u[k] - u_n[k]]))

\* position q is position p with coord += u_axis * inv_gamma * dt on the
\* axes of S and nothing else changed
PushedOn(S, p, q, u, inv_gamma, dt) ==
    \A k \in 1..3 :
        q[k] = IF k \in S THEN p[k] + FMul(FMul(u[k], inv_gamma), dt)
               ELSE p[k]

\* C21: each push applies coord += u_axis * inv_gamma * dt to the axes the
\* build enables (z alone in 1D_Z, x and z in XZ, all three in 3D and RZ)
\* and leaves the other coordinates exactly as they were; no step changes
\* the momenta or dt.
C21_PushFrame ==
    [][/\ ret'.pushed =>
            PushedOn(EnabledAxes(call.dim), call.start, ret'.explicit,
                     call.u, InvGammaOf(call.u), call.dt)
       /\ ret'.pushed_implicit =>
            PushedOn(EnabledAxes(call.dim), call.start, ret'.implicit,
                     call.u, InvGammaImplicitOf(call.u_n, call.u), call.dt)
       /\ call'.u = call.u
       /\ call'.u_n = call.u_n
       /\ call'.dt = call.dt]_vars

\* both pushes have run in XZ with a nonzero uy: x and z have moved, y has
\* not
C21_Witness ==
    /\ ret.pushed
    /\ ret.pushed_implicit
    /\ call.dim = "XZ"
    /\ call.u[2] # 0
    /\ call.dt > 0
    /\ ret.explicit[1] # call.start[1]
    /\ ret.explicit[2] = call.start[2]
    /\ ret.explicit[3] # call.start[3]
    /\ ret.implicit[1] # call.start[1]
    /\ ret.implicit[2] = call.start[2]
    /\ ret.implicit[3] # call.start[3]


====
